---- MODULE Spec2Model ----
(***************************************************************************)
(* Model of books_finder.py: two catalog search adapters, two result       *)
(* presenters, lookup-by-id, the filename sanitizer, the download executor *)
(* and the mode dispatch of main().                                        *)
(*                                                                         *)
(* Conventions.  A Python str is a sequence of one-character strings (a    *)
(* few fixed fragments such as ".epub" are kept as one token).  An         *)
(* optional value is None == <<>> or Some(v) == <<v>>.  A dict is a        *)
(* function with a string domain, so dict.get is a test on DOMAIN.  A      *)
(* decoded JSON body is tagged with its type: [t |-> "object", v |-> d],   *)
(* [t |-> "array", items |-> s], [t |-> "null"].  A Python function is an  *)
(* operator returning its effects: the value returned (ret), the lines     *)
(* printed (out), the HTTP requests issued (reqs) and the exception that   *)
(* escapes it (exc, "none" when it returns).                               *)
(***************************************************************************)
EXTENDS Integers, Sequences, FiniteSets, TLC

VARIABLES
    pc,                 \* position in main(), or in the function called directly
    args,               \* the parsed command line (or the called function's arguments)
    gutenberg_books,    \* main's local: the Catalog A result list
    openlibrary_books,  \* main's local: the Catalog B result list
    book_id,            \* download_from_gutenberg's argument
    book_info,          \* download_from_gutenberg's local: the lookup result
    requests,           \* the HTTP requests issued so far, in order
    stdout,             \* the lines printed so far
    stderr,             \* what argparse wrote before exiting
    exc,                \* the uncaught exception that ended the run, or "none"
    failures,           \* history: the failures met, each with the number of
                        \* lines that had been printed before it
    returned,           \* history: the functions that returned to their caller
    ret,                \* the value returned by a function called directly
    ret2                \* sanitize_filename applied to ret

vars == <<pc, args, gutenberg_books, openlibrary_books, book_id, book_info,
          requests, stdout, stderr, exc, failures, returned, ret, ret2>>

\* ---------------------------------------------------------------- bounds
MaxResults == 11
MaxDocs == 1
MaxLen == 3

\* ------------------------------------------------------- Python helpers
None == <<>>
Some(v) == <<v>>

TruthyStr(o) == o # None /\ o[1] # <<>>
TruthyInt(o) == o # None /\ o[1] # 0

Get(d, k, default) == IF k \in DOMAIN d THEN d[k] ELSE default

EmptyDict == [k \in {} |-> ""]
JNull == [t |-> "null"]
JObject(d) == [t |-> "object", v |-> d]
JArray(s) == [t |-> "array", items |-> s]

TruthyJson(j) ==
    CASE j.t = "null" -> FALSE
      [] j.t = "object" -> DOMAIN j.v # {}
      [] j.t = "array" -> j.items # <<>>

Min(S) == CHOOSE m \in S : \A n \in S : m <= n

RECURSIVE Flatten(_)
Flatten(ss) == IF ss = <<>> THEN <<>> ELSE Head(ss) \o Flatten(Tail(ss))

RECURSIVE Join(_, _)
Join(sep, ss) ==
    IF ss = <<>> THEN <<>>
    ELSE IF Len(ss) = 1 THEN Head(ss)
    ELSE Head(ss) \o sep \o Join(sep, Tail(ss))

\* str.lower() on the characters the model uses
LowerChar(c) ==
    CASE c = "A" -> "a"
      [] c = "B" -> "b"
      [] OTHER -> c

lower(s) == [i \in 1..Len(s) |-> LowerChar(s[i])]

\* urllib.parse.quote with the default safe="/": letters, digits, "_.-~" and
\* "/" are kept, every other character is percent-encoded
QuoteChar(c) ==
    CASE c = " " -> "%20"
      [] c = ":" -> "%3A"
      [] c = "*" -> "%2A"
      [] c = "?" -> "%3F"
      [] OTHER -> c

quote(s) == [i \in 1..Len(s) |-> QuoteChar(s[i])]

\* ---------------------------------------------------- sanitize_filename
IllegalChars == {"<", ">", ":", "\"", "/", "\\", "|", "?", "*"}
Whitespace == {" ", "\t"}

re_sub(text) == SelectSeq(text, LAMBDA c : c \notin IllegalChars)

RECURSIVE lstrip(_)
lstrip(s) == IF s # <<>> /\ Head(s) \in Whitespace THEN lstrip(Tail(s)) ELSE s

RECURSIVE rstrip(_)
rstrip(s) ==
    IF s # <<>> /\ s[Len(s)] \in Whitespace
    THEN rstrip(SubSeq(s, 1, Len(s) - 1))
    ELSE s

strip(s) == rstrip(lstrip(s))

\* the sanitizer without the final strip()
sanitize_filename_unstripped(text) == re_sub(text)

sanitize_filename(text) == strip(re_sub(text))

\* ------------------------------------------------------ effects of a call
Effect(r, o, q, e) == [ret |-> r, out |-> o, reqs |-> q, exc |-> e]

\* e1 ; e2  (e2 is not run when e1 raised)
Then(e1, e2) ==
    IF e1.exc # "none" THEN e1
    ELSE Effect(e2.ret, e1.out \o e2.out, e1.reqs \o e2.reqs, e2.exc)

\* ------------------------------------------------------- search adapters
\* resp is what requests.get / raise_for_status / response.json produce:
\*   [kind |-> "error"]            a requests.RequestException
\*   [kind |-> "notjson"]          the body is not JSON: response.json()
\*       raises requests.exceptions.JSONDecodeError, a RequestException
\*   [kind |-> "json", body]       a decoded body
\* the adapter testing "is not None" where the code tests truthiness
search_project_gutenberg_given(title, author, resp) ==
    LET params ==
            (IF title # None
             THEN << <<"search=">> \o quote(lower(title[1])) >> ELSE <<>>)
            \o (IF author # None
                THEN << <<"search=">> \o quote(lower(author[1])) >> ELSE <<>>)
        url == <<"https://gutendex.com/books/?">> \o Join(<<"&">>, params)
        req == [fn |-> "search_project_gutenberg", method |-> "GET", url |-> url]
        failed == Effect(<<>>, << <<"Error searching Project Gutenberg: {e}">> >>,
                         <<req>>, "none")
    IN  IF params = <<>> THEN Effect(<<>>, <<>>, <<>>, "none")
        ELSE CASE resp.kind = "error" -> failed
               [] resp.kind = "notjson" -> failed
               [] resp.kind = "json" ->
                    IF resp.body.t # "object"
                    THEN Effect(<<>>, <<>>, <<req>>, "AttributeError")
                    ELSE Effect(Get(resp.body.v, "results", <<>>), <<>>,
                                <<req>>, "none")

search_project_gutenberg(title, author, resp) ==
    LET params ==
            (IF TruthyStr(title)
             THEN << <<"search=">> \o quote(lower(title[1])) >> ELSE <<>>)
            \o (IF TruthyStr(author)
                THEN << <<"search=">> \o quote(lower(author[1])) >> ELSE <<>>)
        url == <<"https://gutendex.com/books/?">> \o Join(<<"&">>, params)
        req == [fn |-> "search_project_gutenberg", method |-> "GET", url |-> url]
        failed == Effect(<<>>, << <<"Error searching Project Gutenberg: {e}">> >>,
                         <<req>>, "none")
    IN  IF params = <<>> THEN Effect(<<>>, <<>>, <<>>, "none")
        ELSE CASE resp.kind = "error" -> failed
               [] resp.kind = "notjson" -> failed
               [] resp.kind = "json" ->
                    IF resp.body.t # "object"
                    THEN Effect(<<>>, <<>>, <<req>>, "AttributeError")
                    ELSE Effect(Get(resp.body.v, "results", <<>>), <<>>,
                                <<req>>, "none")

search_open_library(title, author, resp) ==
    LET params ==
            (IF TruthyStr(title)
             THEN << <<"title=">> \o quote(lower(title[1])) >> ELSE <<>>)
            \o (IF TruthyStr(author)
                THEN << <<"author=">> \o quote(lower(author[1])) >> ELSE <<>>)
        url == <<"https://openlibrary.org/search.json?">> \o Join(<<"&">>, params)
        req == [fn |-> "search_open_library", method |-> "GET", url |-> url]
        failed == Effect(<<>>, << <<"Error searching Open Library: {e}">> >>,
                         <<req>>, "none")
    IN  IF params = <<>> THEN Effect(<<>>, <<>>, <<>>, "none")
        ELSE CASE resp.kind = "error" -> failed
               [] resp.kind = "notjson" -> failed
               [] resp.kind = "json" ->
                    IF resp.body.t # "object"
                    THEN Effect(<<>>, <<>>, <<req>>, "AttributeError")
                    ELSE Effect(Get(resp.body.v, "docs", <<>>), <<>>,
                                <<req>>, "none")

\* ------------------------------------------------------ download executor
\* resp: [kind |-> "error"] a RequestException from the GET or while the
\* body is streamed, [kind |-> "ok"] the body was written to the file
download_epub(url, filename, resp) ==
    LET req == [fn |-> "download_epub", method |-> "GET", url |-> url,
                filename |-> filename]
        filepath == <<"downloads", "/">> \o filename
    IN  IF resp.kind = "ok"
        THEN Effect(Some(filepath), << <<"Downloaded: {filepath}", filepath>> >>,
                    <<req>>, "none")
        ELSE Effect(None, << <<"Error downloading file: {e}">> >>, <<req>>, "none")

\* ----------------------------------------------------- result presenters
DisplayLimit == 10

MissingName(book) ==
    \E j \in DOMAIN Get(book, "authors", <<>>) :
        "name" \notin DOMAIN Get(book, "authors", <<>>)[j]

gutenberg_lines(i, book) ==
    LET title == Get(book, "title", <<"Unknown Title">>)
        authors == Join(<<",", " ">>,
                        [j \in DOMAIN Get(book, "authors", <<>>) |->
                            Get(book, "authors", <<>>)[j]["name"]])
        id == Get(book, "id", None)
        formats == Get(book, "formats", EmptyDict)
    IN  << <<"{i}. {title}", i, title>> >>
        \o (IF authors # <<>> THEN << <<"   Author(s): {authors}", authors>> >>
            ELSE <<>>)
        \o << <<"   ID: {book_id}", id>> >>
        \o (IF "application/epub+zip" \in DOMAIN formats
            THEN << <<"   EPUB available: Yes">> >>
            ELSE << <<"   EPUB available: No">> >>)
        \o << <<"">> >>

display_gutenberg_results(books) ==
    IF books = <<>>
    THEN Effect(None, << <<"No books found on Project Gutenberg">> >>, <<>>, "none")
    ELSE LET shown == SubSeq(books, 1, Min({Len(books), DisplayLimit}))
             bad == {i \in DOMAIN shown : MissingName(shown[i])}
             last == IF bad = {} THEN Len(shown) ELSE Min(bad) - 1
         IN  Effect(None,
                    << <<"Project Gutenberg Results ({len(books)} found):", Len(books)>>,
                       <<"--------------------------------------------------">> >>
                    \o Flatten([i \in 1..last |-> gutenberg_lines(i, shown[i])]),
                    <<>>,
                    IF bad = {} THEN "none" ELSE "KeyError")

openlibrary_lines(i, book) ==
    LET title == Get(book, "title", <<"Unknown Title">>)
        authors == Join(<<",", " ">>, Get(book, "author_name", <<>>))
        first_publish_year ==
            IF "first_publish_year" \in DOMAIN book
            THEN ToString(book["first_publish_year"]) ELSE "Unknown"
    IN  << <<"{i}. {title}", i, title>> >>
        \o (IF authors # <<>> THEN << <<"   Author(s): {authors}", authors>> >>
            ELSE <<>>)
        \o << <<"   First published: {first_publish_year}", first_publish_year>> >>
        \o << <<"">> >>

display_openlibrary_results(books) ==
    IF books = <<>>
    THEN Effect(None, << <<"No books found on Open Library">> >>, <<>>, "none")
    ELSE LET shown == SubSeq(books, 1, Min({Len(books), DisplayLimit}))
         IN  Effect(None,
                    << <<"Open Library Results ({len(books)} found):", Len(books)>>,
                       <<"--------------------------------------------------">> >>
                    \o Flatten([i \in 1..Len(shown) |-> openlibrary_lines(i, shown[i])]),
                    <<>>, "none")

\* ----------------------------------------------------------- lookup by id
get_book_info(id, resp) ==
    LET req == [fn |-> "get_book_info", method |-> "GET",
                url |-> <<"https://gutendex.com/books/", ToString(id)>>]
    IN  CASE resp.kind = "error" -> Effect(JNull, <<>>, <<req>>, "none")
          [] resp.kind = "notjson" -> Effect(JNull, <<>>, <<req>>, "none")
          [] resp.kind = "json" -> Effect(resp.body, <<>>, <<req>>, "none")

\* the filename composed as "Title - Author.epub", and the fallback without
\* the identifier
derive_filename_title_first(id, info) ==
    IF TruthyJson(info)
    THEN IF info.t # "object" THEN [exc |-> "AttributeError", filename |-> <<>>]
         ELSE LET title == Get(info.v, "title", <<"Unknown Title">>)
                  authors == Get(info.v, "authors", <<>>)
              IN  IF authors # <<>> /\ "name" \notin DOMAIN authors[1]
                  THEN [exc |-> "KeyError", filename |-> <<>>]
                  ELSE LET author_name == IF authors # <<>> THEN authors[1]["name"]
                                          ELSE <<"Unknown Author">>
                           safe_author == sanitize_filename(author_name)
                           safe_title == sanitize_filename(title)
                       IN  [exc |-> "none",
                            filename |-> safe_title \o <<" ", "-", " ">>
                                         \o safe_author \o <<".epub">>]
    ELSE [exc |-> "none", filename |-> <<"gutenberg_", ".epub">>]

\* lines 134-144 of download_from_gutenberg: the filename, or the exception
\* raised while it is derived from book_info
derive_filename(id, info) ==
    IF TruthyJson(info)
    THEN IF info.t # "object" THEN [exc |-> "AttributeError", filename |-> <<>>]
         ELSE LET title == Get(info.v, "title", <<"Unknown Title">>)
                  authors == Get(info.v, "authors", <<>>)
              IN  IF authors # <<>> /\ "name" \notin DOMAIN authors[1]
                  THEN [exc |-> "KeyError", filename |-> <<>>]
                  ELSE LET author_name == IF authors # <<>> THEN authors[1]["name"]
                                          ELSE <<"Unknown Author">>
                           safe_author == sanitize_filename(author_name)
                           safe_title == sanitize_filename(title)
                       IN  [exc |-> "none",
                            filename |-> safe_author \o <<" ", "-", " ">>
                                         \o safe_title \o <<".epub">>]
    ELSE [exc |-> "none", filename |-> <<"gutenberg_", ToString(id), ".epub">>]

\* lines 134-147 of download_from_gutenberg, book_info being the result of the
\* call of get_book_info at line 132
download_from_gutenberg(id, info, dl) ==
    LET name == derive_filename(id, info)
        url == <<"https://www.gutenberg.org/ebooks/", ToString(id), ".epub.noimages">>
    IN  IF name.exc # "none" THEN Effect(None, <<>>, <<>>, name.exc)
        ELSE download_epub(url, name.filename, dl)

\* ------------------------------------------------------------------ inputs
EpubKey == "application/epub+zip"

ArgTexts == {<<>>, <<"A", " ", "B">>}
ArgStrings == {None} \cup {Some(t) : t \in ArgTexts}
Sources == {"gutenberg", "openlibrary", "all"}
Selectors ==
    {None} \cup {Some(n) : n \in {-1, 0, 1, 2, DisplayLimit, DisplayLimit + 1,
                                  MaxResults, MaxResults + 1}}

MetaTexts == {<<"A", "/", "b">>, <<" ", "?", "\t">>}

\* Catalog A records; identifiers differ from ranks
BookShapes == {"plain", "noepub", "emptyurl", "noformats", "noauthors",
               "twoauthors", "notitle", "noname"}

Book(i, shape) ==
    LET id == 100 + 7 * i
        url == <<"https://www.gutenberg.org/ebooks/", ToString(id), ".epub3.images">>
    IN  CASE shape = "plain" ->
                [id |-> id, title |-> <<"T">>, authors |-> <<[name |-> <<"A">>]>>,
                 formats |-> (EpubKey :> url)]
          [] shape = "noepub" ->
                [id |-> id, title |-> <<"T">>, authors |-> <<[name |-> <<"A">>]>>,
                 formats |-> ("text/html" :> url)]
          [] shape = "emptyurl" ->
                [id |-> id, title |-> <<"T">>, authors |-> <<[name |-> <<"A">>]>>,
                 formats |-> (EpubKey :> <<>>)]
          [] shape = "noformats" ->
                [id |-> id, title |-> <<"T">>, authors |-> <<[name |-> <<"A">>]>>]
          [] shape = "noauthors" ->
                [id |-> id, title |-> <<"T">>, authors |-> <<>>,
                 formats |-> (EpubKey :> url)]
          [] shape = "twoauthors" ->
                [id |-> id, title |-> <<"T">>,
                 authors |-> <<[name |-> <<"A">>], [name |-> <<"B">>]>>,
                 formats |-> (EpubKey :> url)]
          [] shape = "notitle" ->
                [id |-> id, authors |-> <<[name |-> <<"A">>]>>,
                 formats |-> (EpubKey :> url)]
          [] shape = "noname" ->
                [id |-> id, title |-> <<"T">>, authors |-> <<[birth_year |-> 1800]>>,
                 formats |-> (EpubKey :> url)]

\* a result list of n records, all plain but the one at position k
ResultList(n, k, shape) ==
    [i \in 1..n |-> IF i = k THEN Book(i, shape) ELSE Book(i, "plain")]

ListLengths == {0, 1, MaxResults}

ResultLists ==
    UNION {{ResultList(n, k, shape) : k \in {1, n}, shape \in BookShapes} :
           n \in ListLengths}

NotJson == {[kind |-> "notjson"]}

GutenbergResponses ==
    {[kind |-> "error"]} \cup NotJson
    \cup {[kind |-> "json", body |-> JArray(<<>>)],
          [kind |-> "json", body |-> JObject([detail |-> <<"x">>])]}
    \cup {[kind |-> "json", body |-> JObject([results |-> l])] : l \in ResultLists}

Doc(i, shape) ==
    CASE shape = "plain" ->
            [title |-> <<"T">>, author_name |-> << <<"A">>, <<"B">> >>,
             first_publish_year |-> 1900 + i]
      [] shape = "bare" -> [key |-> <<"/works/", ToString(i)>>]

DocLists ==
    {[i \in 1..n |-> Doc(i, shape)] : n \in 0..MaxDocs, shape \in {"plain", "bare"}}

OpenLibraryResponses ==
    {[kind |-> "error"]} \cup NotJson
    \cup {[kind |-> "json", body |-> JArray(<<>>)],
          [kind |-> "json", body |-> JObject([error |-> <<"x">>])]}
    \cup {[kind |-> "json", body |-> JObject([docs |-> l])] : l \in DocLists}

LookupRecords ==
    {[id |-> 1, title |-> t, authors |-> <<[name |-> a], [name |-> <<"Z">>]>>] :
        t \in MetaTexts, a \in MetaTexts}
    \cup {[id |-> 1, title |-> <<"T", ":">>, authors |-> <<>>],
          [id |-> 1, authors |-> <<[name |-> <<"A", "*">>]>>],
          [id |-> 1, title |-> <<"T">>, authors |-> <<[birth_year |-> 1800]>>]}

LookupResponses ==
    {[kind |-> "error"]} \cup NotJson
    \cup {[kind |-> "json", body |-> JNull],
          [kind |-> "json", body |-> JArray(<<>>)],
          [kind |-> "json", body |-> JArray(<<"x">>)],
          [kind |-> "json", body |-> JObject(EmptyDict)]}
    \cup {[kind |-> "json", body |-> JObject(r)] : r \in LookupRecords}

DownloadResponses == {[kind |-> "ok"], [kind |-> "error"]}

\* a response that is a failure of the catalog: transport or HTTP error, a
\* body that is not JSON, not an object, lacks the expected key, or holds a
\* record whose author has no name
FailedSearch(resp, key) ==
    \/ resp.kind # "json"
    \/ resp.body.t # "object"
    \/ key \notin DOMAIN resp.body.v
    \/ \E i \in DOMAIN resp.body.v[key] : MissingName(resp.body.v[key][i])

FailedLookup(resp) ==
    \/ resp.kind # "json"
    \/ resp.body.t # "object"
    \/ DOMAIN resp.body.v = {}
    \/ MissingName(resp.body.v)

\* -------------------------------------------------------------------- main
Terminal == {"done", "exit2", "crashed"}

\* the dispatch without the usage check of line 204
mode_without_usage(a) ==
    IF TruthyInt(a.download) /\ (TruthyStr(a.title) \/ TruthyStr(a.author))
    THEN "by_index"
    ELSE IF TruthyInt(a.download) THEN "direct"
    ELSE "search"

\* lines 161, 200, 204: which branch of main() runs
mode(a) ==
    IF TruthyInt(a.download) /\ (TruthyStr(a.title) \/ TruthyStr(a.author))
    THEN "by_index"
    ELSE IF TruthyInt(a.download) THEN "direct"
    ELSE IF ~TruthyStr(a.title) /\ ~TruthyStr(a.author) THEN "usage"
    ELSE "search"

\* the selection taking the first record whatever the selector
select_index_first(source, books, download) ==
    LET book == books[1]
        formats == Get(book, "formats", EmptyDict)
        epub == IF EpubKey \in DOMAIN formats THEN Some(formats[EpubKey]) ELSE None
        chosen ==
            IF epub # None /\ epub[1] # <<>>
            THEN [out |-> <<>>, call |-> Some(Get(book, "id", None))]
            ELSE [out |-> << <<"EPUB not available for book {args.download}",
                               download>> >>,
                  call |-> None]
    IN  CASE source = "gutenberg" /\ books # <<>> ->
                IF 1 <= download /\ download <= Len(books) THEN chosen
                ELSE [out |-> << <<"Invalid index. Choose between 1 and {len(gutenberg_books)}",
                                   1, Len(books)>> >>,
                      call |-> None]
          [] source = "gutenberg" /\ books = <<>> -> [out |-> <<>>, call |-> None]
          [] source = "openlibrary" ->
                [out |-> << <<"Direct download from Open Library is not supported yet.">> >>,
                 call |-> None]
          [] source = "all" ->
                IF 1 <= download /\ download <= Len(books) THEN chosen
                ELSE [out |-> << <<"Invalid index. Choose between 1 and {total_books} (only Project Gutenberg books can be downloaded)",
                                   1, Len(books)>> >>,
                      call |-> None]

\* lines 174-196: the selection by index; call is Some(book_id) when
\* download_from_gutenberg is called
select_index(source, books, download) ==
    LET book == books[download]
        formats == Get(book, "formats", EmptyDict)
        epub == IF EpubKey \in DOMAIN formats THEN Some(formats[EpubKey]) ELSE None
        chosen ==
            IF epub # None /\ epub[1] # <<>>
            THEN [out |-> <<>>, call |-> Some(Get(book, "id", None))]
            ELSE [out |-> << <<"EPUB not available for book {args.download}",
                               download>> >>,
                  call |-> None]
    IN  CASE source = "gutenberg" /\ books # <<>> ->
                IF 1 <= download /\ download <= Len(books) THEN chosen
                ELSE [out |-> << <<"Invalid index. Choose between 1 and {len(gutenberg_books)}",
                                   1, Len(books)>> >>,
                      call |-> None]
          [] source = "gutenberg" /\ books = <<>> -> [out |-> <<>>, call |-> None]
          [] source = "openlibrary" ->
                [out |-> << <<"Direct download from Open Library is not supported yet.">> >>,
                 call |-> None]
          [] source = "all" ->
                IF 1 <= download /\ download <= Len(books) THEN chosen
                ELSE [out |-> << <<"Invalid index. Choose between 1 and {total_books} (only Project Gutenberg books can be downloaded)",
                                   1, Len(books)>> >>,
                      call |-> None]

\* the effects of a call become part of the run
Run(e, next) ==
    /\ requests' = requests \o e.reqs
    /\ stdout' = stdout \o e.out
    /\ exc' = e.exc
    /\ pc' = IF e.exc # "none" THEN "crashed" ELSE next

Failure(what) == [what |-> what, printed |-> Len(stdout) + Len(stderr)]

Init ==
    /\ pc = "main"
    /\ args \in [title : ArgStrings, author : ArgStrings, source : Sources,
                 download : Selectors]
    /\ gutenberg_books = <<>>
    /\ openlibrary_books = <<>>
    /\ book_id = None
    /\ book_info = JNull
    /\ requests = <<>>
    /\ stdout = <<>>
    /\ stderr = <<>>
    /\ exc = "none"
    /\ failures = {}
    /\ returned = {}
    /\ ret = None
    /\ ret2 = None

\* lines 161-163, 200, 204
Dispatch ==
    /\ pc = "main"
    /\ pc' = mode(args)
    /\ UNCHANGED <<args, gutenberg_books, openlibrary_books, book_id, book_info,
                   requests, stdout, stderr, exc, failures, returned, ret, ret2>>

\* lines 165-167 (by index) and 207-209 (search only)
SearchGutenberg ==
    /\ pc \in {"by_index", "search"}
    /\ IF args.source \in {"gutenberg", "all"}
       THEN \E resp \in GutenbergResponses :
              LET found == search_project_gutenberg(args.title, args.author, resp)
                  shown == display_gutenberg_results(found.ret)
              IN  /\ Run(Then(found, shown), pc \o "_openlibrary")
                  /\ gutenberg_books' =
                        IF found.exc = "none" THEN found.ret ELSE gutenberg_books
                  /\ failures' = failures \cup
                        (IF FailedSearch(resp, "results")
                         THEN {Failure("search_project_gutenberg")} ELSE {})
                  /\ returned' = returned
                        \cup (IF found.exc = "none"
                              THEN {"search_project_gutenberg"} ELSE {})
                        \cup (IF found.exc = "none" /\ shown.exc = "none"
                              THEN {"display_gutenberg_results"} ELSE {})
       ELSE /\ pc' = pc \o "_openlibrary"
            /\ UNCHANGED <<gutenberg_books, requests, stdout, exc, failures, returned>>
    /\ UNCHANGED <<args, openlibrary_books, book_id, book_info, stderr, ret, ret2>>

\* lines 169-171 (by index) and 211-213 (search only)
SearchOpenLibrary ==
    /\ pc \in {"by_index_openlibrary", "search_openlibrary"}
    /\ LET next == IF pc = "by_index_openlibrary" THEN "select" ELSE "guidance"
       IN  IF args.source \in {"openlibrary", "all"}
           THEN \E resp \in OpenLibraryResponses :
                  LET found == search_open_library(args.title, args.author, resp)
                      shown == display_openlibrary_results(found.ret)
                  IN  /\ Run(Then(found, shown), next)
                      /\ openlibrary_books' =
                            IF found.exc = "none" THEN found.ret ELSE openlibrary_books
                      /\ failures' = failures \cup
                            (IF FailedSearch(resp, "docs")
                             THEN {Failure("search_open_library")} ELSE {})
                      /\ returned' = returned
                            \cup (IF found.exc = "none"
                                  THEN {"search_open_library"} ELSE {})
                            \cup (IF found.exc = "none" /\ shown.exc = "none"
                                  THEN {"display_openlibrary_results"} ELSE {})
           ELSE /\ pc' = next
                /\ UNCHANGED <<openlibrary_books, requests, stdout, exc, failures,
                               returned>>
    /\ UNCHANGED <<args, gutenberg_books, book_id, book_info, stderr, ret, ret2>>

OutOfRange(source, books, download) ==
    /\ \/ source = "gutenberg" /\ books # <<>>
       \/ source = "all"
    /\ ~(1 <= download /\ download <= Len(books))

\* lines 173-197, up to the call of download_from_gutenberg
SelectIndex ==
    /\ pc = "select"
    /\ LET sel == select_index(args.source, gutenberg_books, args.download[1])
       IN  /\ stdout' = stdout \o sel.out
           /\ book_id' = sel.call
           /\ pc' = IF sel.call # None THEN "get_book_info" ELSE "done"
    /\ failures' = failures \cup
          (IF OutOfRange(args.source, gutenberg_books, args.download[1])
           THEN {Failure("index out of range")} ELSE {})
    /\ UNCHANGED <<args, gutenberg_books, openlibrary_books, book_info, requests,
                   stderr, exc, returned, ret, ret2>>

\* lines 200-201: the selector is the identifier
DirectDownload ==
    /\ pc = "direct"
    /\ book_id' = Some(args.download[1])
    /\ pc' = "get_book_info"
    /\ UNCHANGED <<args, gutenberg_books, openlibrary_books, book_info, requests,
                   stdout, stderr, exc, failures, returned, ret, ret2>>

\* line 132
GetBookInfo ==
    /\ pc = "get_book_info"
    /\ \E resp \in LookupResponses :
         LET got == get_book_info(book_id[1], resp)
         IN  /\ Run(got, "download")
             /\ book_info' = IF got.exc = "none" THEN got.ret ELSE book_info
             /\ failures' = failures \cup
                   (IF FailedLookup(resp) THEN {Failure("get_book_info")} ELSE {})
             /\ returned' = returned \cup
                   (IF got.exc = "none" THEN {"get_book_info"} ELSE {})
    /\ UNCHANGED <<args, gutenberg_books, openlibrary_books, book_id, stderr,
                   ret, ret2>>

\* lines 134-147, then the return of main (197 or 202)
Download ==
    /\ pc = "download"
    /\ \E resp \in DownloadResponses :
         LET e == download_from_gutenberg(book_id[1], book_info, resp)
         IN  /\ Run(e, "done")
             /\ failures' = failures \cup
                   (IF e.reqs # <<>> /\ resp.kind = "error"
                    THEN {Failure("download_epub")} ELSE {})
             /\ returned' = returned \cup
                   (IF e.exc = "none" THEN {"download_epub"} ELSE {})
    /\ UNCHANGED <<args, gutenberg_books, openlibrary_books, book_id, book_info,
                   stderr, ret, ret2>>

\* lines 204-205: parser.error prints the usage and the message to stderr and
\* exits with status 2
UsageError ==
    /\ pc = "usage"
    /\ stderr' = stderr \o << <<"usage: {prog} ...">>,
                     <<"{prog}: error: Must specify either --title or --author (or both)">> >>
    /\ pc' = "exit2"
    /\ UNCHANGED <<args, gutenberg_books, openlibrary_books, book_id, book_info,
                   requests, stdout, exc, failures, returned, ret, ret2>>

\* lines 215-217
Guidance ==
    /\ pc = "guidance"
    /\ stdout' = stdout \o
          << <<"To download a book:">>,
             <<"- From search results: python books_finder.py --title 'title' --author 'author' --download <index>">>,
             <<"- By Project Gutenberg ID: python books_finder.py --download <ID>">> >>
    /\ pc' = "done"
    /\ UNCHANGED <<args, gutenberg_books, openlibrary_books, book_id, book_info,
                   requests, stderr, exc, failures, returned, ret, ret2>>

Next ==
    \/ Dispatch
    \/ SearchGutenberg
    \/ SearchOpenLibrary
    \/ SelectIndex
    \/ DirectDownload
    \/ GetBookInfo
    \/ Download
    \/ UsageError
    \/ Guidance

Spec == Init /\ [][Next]_vars

TypeOK == pc \in {"main", "by_index", "direct", "usage", "search",
                  "by_index_openlibrary", "search_openlibrary", "select",
                  "get_book_info", "download", "guidance"} \cup Terminal

\* ------------------------------------------- the search adapters on their own
\* search_project_gutenberg and search_open_library called with any pair of
\* arguments, absent and empty ones included
InitSearch ==
    /\ pc \in {"search_project_gutenberg", "search_open_library"}
    /\ args \in [title : ArgStrings, author : ArgStrings]
    /\ gutenberg_books = <<>>
    /\ openlibrary_books = <<>>
    /\ book_id = None
    /\ book_info = JNull
    /\ requests = <<>>
    /\ stdout = <<>>
    /\ stderr = <<>>
    /\ exc = "none"
    /\ failures = {}
    /\ returned = {}
    /\ ret = None
    /\ ret2 = None

CallSearchProjectGutenberg ==
    /\ pc = "search_project_gutenberg"
    /\ \E resp \in GutenbergResponses :
         LET found == search_project_gutenberg(args.title, args.author, resp)
         IN  /\ Run(found, "returned")
             /\ ret' = IF found.exc = "none" THEN Some(found.ret) ELSE None
    /\ UNCHANGED <<args, gutenberg_books, openlibrary_books, book_id, book_info,
                   stderr, failures, returned, ret2>>

CallSearchOpenLibrary ==
    /\ pc = "search_open_library"
    /\ \E resp \in OpenLibraryResponses :
         LET found == search_open_library(args.title, args.author, resp)
         IN  /\ Run(found, "returned")
             /\ ret' = IF found.exc = "none" THEN Some(found.ret) ELSE None
    /\ UNCHANGED <<args, gutenberg_books, openlibrary_books, book_id, book_info,
                   stderr, failures, returned, ret2>>

NextSearch ==
    \/ CallSearchProjectGutenberg
    \/ CallSearchOpenLibrary

SpecSearch == InitSearch /\ [][NextSearch]_vars

\* ---------------------------------------------- sanitize_filename on its own
Alphabet == IllegalChars \cup Whitespace \cup {"A", "b"}

Example == <<"A", "/", "B", ":", "C", "*", "D">>

Texts == UNION {[1..n -> Alphabet] : n \in 0..MaxLen} \cup {Example}

InitSanitize ==
    /\ pc = "sanitize_filename"
    /\ args \in [text : Texts]
    /\ gutenberg_books = <<>>
    /\ openlibrary_books = <<>>
    /\ book_id = None
    /\ book_info = JNull
    /\ requests = <<>>
    /\ stdout = <<>>
    /\ stderr = <<>>
    /\ exc = "none"
    /\ failures = {}
    /\ returned = {}
    /\ ret = None
    /\ ret2 = None

CallSanitize ==
    /\ pc = "sanitize_filename"
    /\ ret' = Some(sanitize_filename(args.text))
    /\ pc' = "returned"
    /\ UNCHANGED <<args, gutenberg_books, openlibrary_books, book_id, book_info,
                   requests, stdout, stderr, exc, failures, returned, ret2>>

CallSanitizeAgain ==
    /\ pc = "returned"
    /\ ret2' = Some(sanitize_filename(ret[1]))
    /\ pc' = "returned_twice"
    /\ UNCHANGED <<args, gutenberg_books, openlibrary_books, book_id, book_info,
                   requests, stdout, stderr, exc, failures, returned, ret>>

NextSanitize ==
    \/ CallSanitize
    \/ CallSanitizeAgain

SpecSanitize == InitSanitize /\ [][NextSanitize]_vars

\* ================================================================== claims
ByIndexGiven ==
    args.download # None /\ (TruthyStr(args.title) \/ TruthyStr(args.author))

Issued(fns) == \E i \in DOMAIN requests : requests[i].fn \in fns

Printed(line) == \E i \in DOMAIN stdout : stdout[i][1] = line

RangeErrors ==
    {"Invalid index. Choose between 1 and {len(gutenberg_books)}",
     "Invalid index. Choose between 1 and {total_books} (only Project Gutenberg books can be downloaded)"}

DownloadUrl(id) ==
    <<"https://www.gutenberg.org/ebooks/", ToString(id), ".epub.noimages">>

\* the Catalog A presenter printed "<r>. <title>" followed by "ID: <id>"
Displayed(r, id) ==
    \E k \in DOMAIN stdout :
        /\ stdout[k][1] = "{i}. {title}"
        /\ stdout[k][2] = r
        /\ k + 1 \in DOMAIN stdout
        /\ \/ stdout[k + 1][1] = "   ID: {book_id}" /\ stdout[k + 1][2] = id
           \/ /\ stdout[k + 1][1] = "   Author(s): {authors}"
              /\ k + 2 \in DOMAIN stdout
              /\ stdout[k + 2][1] = "   ID: {book_id}"
              /\ stdout[k + 2][2] = id

\* C1: a selector and a search term are given, the scope includes Catalog A
\* and its search returned N >= 1 records: when main() has returned, every
\* selector outside 1..N has produced a range error citing 1 and N, and no
\* lookup or download request was issued.
C1_RangeError ==
    (/\ pc = "done"
     /\ ByIndexGiven
     /\ args.source \in {"gutenberg", "all"}
     /\ "search_project_gutenberg" \in returned
     /\ Len(gutenberg_books) >= 1
     /\ args.download[1] \notin 1..Len(gutenberg_books))
    => /\ \E i \in DOMAIN stdout :
            /\ stdout[i][1] \in RangeErrors
            /\ stdout[i][2] = 1
            /\ stdout[i][3] = Len(gutenberg_books)
       /\ ~Issued({"get_book_info", "download_epub"})

\* C2: an identifier is given with no title and no author: when the run has
\* ended without an uncaught exception, main() has returned after issuing
\* exactly one lookup for the identifier followed by exactly one download
\* from the URL template for the same identifier, and no search.
C2_DirectDownload ==
    (/\ args.download # None
     /\ args.title = None
     /\ args.author = None
     /\ pc \in {"done", "exit2"})
    => /\ pc = "done"
       /\ Len(requests) = 2
       /\ requests[1].fn = "get_book_info"
       /\ requests[1].url = <<"https://gutendex.com/books/", ToString(args.download[1])>>
       /\ requests[2].fn = "download_epub"
       /\ requests[2].url = DownloadUrl(args.download[1])

\* C3: with no selector, no title and no author the run issues no request at
\* any point, does nothing but reach the usage error, and ends with the
\* usage message written and exit status 2.
C3_UsageError ==
    (args.download = None /\ args.title = None /\ args.author = None)
    => /\ requests = <<>>
       /\ pc \in {"main", "usage", "exit2"}
       /\ (pc = "exit2" => stderr # <<>>)

C3_Witness ==
    /\ args.download = None /\ args.title = None /\ args.author = None
    /\ pc = "exit2"
    /\ stderr # <<>>
    /\ requests = <<>>

\* C4: no run ends by an uncaught exception, and every failure met during a
\* run is followed by at least one printed line.
C4_NoSilentNoCrash ==
    /\ pc # "crashed"
    /\ exc = "none"
    /\ \A f \in failures : Len(stdout) + Len(stderr) > f.printed

\* C5: a selector and a search term are given, the scope includes Catalog A
\* and its search returned an empty list: the run ends without an uncaught
\* exception, having printed the "no books found" line and issued no lookup
\* or download request.
C5_NoBooksFound ==
    (/\ ByIndexGiven
     /\ args.source \in {"gutenberg", "all"}
     /\ "search_project_gutenberg" \in returned
     /\ gutenberg_books = <<>>
     /\ pc \in Terminal)
    => /\ pc # "crashed"
       /\ Printed("No books found on Project Gutenberg")
       /\ ~Issued({"get_book_info", "download_epub"})

\* the name the claim gives for a record
AuthorTitleName(record) ==
    (IF Get(record, "authors", <<>>) # <<>>
     THEN sanitize_filename(record.authors[1].name)
     ELSE <<"Unknown Author">>)
    \o <<" ", "-", " ">>
    \o sanitize_filename(Get(record, "title", <<"Unknown Title">>))
    \o <<".epub">>

\* C6: in the direct-download flow, once the lookup has returned: if it
\* returned None the run ends with the download issued under the name
\* gutenberg_<id>.epub; if it returned a record, a download is only ever
\* issued under "<sanitized first author or Unknown Author> - <sanitized
\* title>.epub".
C6_Filename ==
    (mode(args) = "direct" /\ "get_book_info" \in returned)
    => /\ (book_info.t = "null" /\ pc \in Terminal)
            => /\ pc = "done"
               /\ Len(requests) = 2
               /\ requests[2].fn = "download_epub"
               /\ requests[2].filename =
                     <<"gutenberg_", ToString(args.download[1]), ".epub">>
       /\ (book_info.t = "object" /\ DOMAIN book_info.v # {})
            => \A i \in DOMAIN requests :
                  requests[i].fn = "download_epub"
                  => requests[i].filename = AuthorTitleName(book_info.v)

C6_Witness ==
    /\ mode(args) = "direct"
    /\ "get_book_info" \in returned
    /\ book_info.t = "null"
    /\ pc = "done"
    /\ Len(requests) = 2
    /\ requests[2].filename = <<"gutenberg_", ToString(args.download[1]), ".epub">>

\* C7: a selector and a search term are given with scope openlibrary: when
\* main() has returned it has printed the "not supported" line and issued no
\* Catalog A search, no lookup and no download.
C7_NotSupported ==
    (ByIndexGiven /\ args.source = "openlibrary" /\ pc = "done")
    => /\ Printed("Direct download from Open Library is not supported yet.")
       /\ ~Issued({"search_project_gutenberg", "get_book_info", "download_epub"})

\* C8: a search adapter called with title and author both absent or empty
\* returns an empty list without any request; called with at least one
\* non-empty term it has issued exactly one GET when it returns or raises.
C8_OneRequestOrNone ==
    /\ pc \in {"search_project_gutenberg", "search_open_library"}
         => requests = <<>>
    /\ pc \in {"returned", "crashed"}
         => IF ~TruthyStr(args.title) /\ ~TruthyStr(args.author)
            THEN pc = "returned" /\ ret = Some(<<>>) /\ requests = <<>>
            ELSE Len(requests) = 1 /\ requests[1].method = "GET"

C8_Witness ==
    /\ pc = "returned"
    /\ args.title = Some(<<>>)
    /\ args.author = None
    /\ ret = Some(<<>>)
    /\ requests = <<>>

\* C9: the result of sanitize_filename has none of the characters
\* < > : " / \ | ? *, has no leading or trailing whitespace, and is the input
\* without those characters and without the whitespace at its two ends, in
\* the original order (A/B:C*D gives ABCD); sanitizing the result again
\* gives the result.
C9_Sanitized ==
    pc \in {"returned", "returned_twice"}
    => LET out == ret[1]
           kept == SelectSeq(args.text, LAMBDA c : c \notin IllegalChars)
       IN  /\ \A i \in DOMAIN out : out[i] \notin IllegalChars
           /\ out # <<>> => out[1] \notin Whitespace /\ out[Len(out)] \notin Whitespace
           /\ \E a \in 0..Len(kept) :
                /\ a + Len(out) <= Len(kept)
                /\ \A i \in 1..a : kept[i] \in Whitespace
                /\ out = SubSeq(kept, a + 1, a + Len(out))
                /\ \A i \in (a + Len(out) + 1)..Len(kept) : kept[i] \in Whitespace
           /\ args.text = Example => out = <<"A", "B", "C", "D">>
           /\ pc = "returned_twice" => ret2 = ret

C9_Witness ==
    /\ pc = "returned_twice"
    /\ args.text = Example
    /\ ret = Some(<<"A", "B", "C", "D">>)
    /\ ret2 = ret

HasEpubUrl(book) ==
    /\ EpubKey \in DOMAIN Get(book, "formats", EmptyDict)
    /\ book.formats[EpubKey] # <<>>

\* C10 as stated: in the by-index mode a download is only ever requested for
\* the identifier of the record the Catalog A presenter displayed under the
\* rank given as selector, one of the first 10, and that record has an EPUB
\* URL.
C10_DisplayedRecord ==
    mode(args) = "by_index"
    => \A i \in DOMAIN requests :
          requests[i].fn = "download_epub"
          => LET r == args.download[1]
             IN  /\ r \in 1..Len(gutenberg_books)
                 /\ r <= DisplayLimit
                 /\ requests[i].url = DownloadUrl(gutenberg_books[r].id)
                 /\ Displayed(r, gutenberg_books[r].id)
                 /\ HasEpubUrl(gutenberg_books[r])

\* C10 amended: in the by-index mode a download is only ever requested for
\* the identifier of the record at position r of the Catalog A result list,
\* r being the selector; that record has an EPUB URL, and it is the record
\* displayed under rank r when r is at most 10 (a record beyond the tenth is
\* selectable though it was not displayed).
C10_ListedRecord ==
    mode(args) = "by_index"
    => \A i \in DOMAIN requests :
          requests[i].fn = "download_epub"
          => LET r == args.download[1]
             IN  /\ r \in 1..Len(gutenberg_books)
                 /\ requests[i].url = DownloadUrl(gutenberg_books[r].id)
                 /\ HasEpubUrl(gutenberg_books[r])
                 /\ r <= DisplayLimit => Displayed(r, gutenberg_books[r].id)

C10_Witness ==
    /\ mode(args) = "by_index"
    /\ args.download[1] > DisplayLimit
    /\ Issued({"download_epub"})
    /\ ~Displayed(args.download[1], gutenberg_books[args.download[1]].id)

====
